---- MODULE Spec2Model ----
(***************************************************************************)
(* Knowledge-base retrieval core of the clinic application:               *)
(*   EmbeddingsService   (backend/embeddings_service.py)                   *)
(*   VectorSearchEngine  (backend/vector_search.py)                        *)
(*   QAManager           (backend/qa_management.py)                        *)
(*                                                                         *)
(* Abstractions.                                                           *)
(*  - A text is a small integer; an embedding is a record                  *)
(*    [dim, dir, mag]: its length, its direction (one of NumDirs           *)
(*    directions 60 degrees apart) and its magnitude class.  The inner     *)
(*    product of two vectors is mag*mag*cos(angle), with cos scaled by     *)
(*    ScoreScale, so a score of 1.0 is ScoreScale.                         *)
(*  - The FAISS index is [ok, d, vecs]; ok = FALSE is Python's None.       *)
(*  - id_mapping (a dict) is a set of <<position, id>> pairs with unique   *)
(*    positions; positions are 0-based as in the source.                   *)
(*  - Every handler takes one environment fault as input: the place, if    *)
(*    any, at which an except clause of the source is entered.             *)
(***************************************************************************)
EXTENDS Integers, Sequences, FiniteSets, TLC

\* ------------------------------------------------------------------ bounds
MaxEntries == 2
NumQuestions == 2
NumAnswers == 1
NumCategories == 0
NumQueries == 1
MaxK == 2
MaxThreshold == 3
\* environment faults and process restarts in one behaviour
\* entries of the fixed corpus (get_dental_corpus lists 35)
CorpusSize == 2
\* calls of rebuild_index that can be running at once
MaxRebuilders == 2
\* calls of rebuild_index and search made from threads in one behaviour
MaxCalls == 3
\* characters of a text given to the embeddings service
MaxTextLen == 5
\* characters of the other text of a batch of two
MaxShortLen == 1
\* self.max_tokens, 512 in the service: words kept in primary mode, a
\* quarter of the characters kept in fallback mode
max_tokens == 1
MaxFaults == 1
MaxRestarts == 1

\* ------------------------------------------------------- program constants
PrimaryDimension == 384
FallbackDimension == 128
\* cosines of the angles 0, 60, ..., 300 degrees, times two
CosTable == <<2, 1, -1, -2, -1, 1>>
NumDirs == Len(CosTable)
\* the score of two equal normalised vectors (1.0)
ScoreScale == CosTable[1]

\* search(k=5, threshold=0.7): among the scores of the model, 0.7 admits
\* ScoreScale alone.  What a search returns for every other k and threshold
\* is a function of the state it runs in; the steps below take the defaults.
DefaultK == 5
DefaultThreshold == ScoreScale

\* create_qa_pair(source="user_defined"), pair.get('source', 'user_defined')
DefaultSource == "user_defined"

PrimaryModel == "all-MiniLM-L6-v2"
FallbackModel == "basic-text-similarity"

Questions == 1..NumQuestions
Answers == 1..NumAnswers
\* category 0 is None
Categories == 0..NumCategories
\* query 0 is the empty (whitespace-only) string
Queries == 0..NumQueries
Ks == 1..MaxK
\* a threshold of ScoreScale + 1 is above every normalised score (as 1.1 is)
Thresholds == 1..MaxThreshold

\* where the environment fails during one handler call:
\*   embed         generate_embedding (or the store commit after it) raises
\*   query         the index layer's db.query(...).all() raises
\*   add           index.add raises
\*   save          faiss.write_index raises in save_index
\*   load_index    faiss.read_index raises in load_index
\*   load_mapping  pickle.load raises in load_index
\*   legacy        the commit of the ChatbotQA rows raises
Faults == {"none", "embed", "query", "add", "save", "load_index",
           "load_mapping", "legacy"}
StoreFaults == {"none", "embed", "query", "save"}
CreateFaults == {"none", "embed", "query", "add", "save", "legacy"}
RebuildFaults == {"none", "query", "save"}
InitFaults == {"none", "query", "save", "load_index", "load_mapping"}
SearchFaults == {"none", "embed", "query"}
DetailFaults == SearchFaults \cup {"hydrate"}

VARIABLES kb, is_available, dimension, index, id_mapping,
          index_file, mapping_file, last, faults, restarts, threads

vars == <<kb, is_available, dimension, index, id_mapping,
          index_file, mapping_file, last, faults, restarts, threads>>

\* ------------------------------------------------------ EmbeddingsService
EmbeddingDimension(avail) == IF avail THEN PrimaryDimension ELSE FallbackDimension

ModelName(avail) == IF avail THEN PrimaryModel ELSE FallbackModel

\* the empty list []
EmptyList == [dim |-> 0, dir |-> 0, mag |-> 0]

\* f"Q: {question}\nA: {answer}": distinct pairs give distinct texts; a
\* query string n is as close to the text n as a text can be
CombinedText(q, a) == (q - 1) * NumAnswers + a

\* model.encode / _generate_basic_embedding: the primary model returns an
\* unnormalised vector (mag 2), the fallback normalises its own (mag 1)
generate_embedding(avail, text) ==
    IF avail
    THEN [dim |-> PrimaryDimension, dir |-> text % NumDirs, mag |-> 2]
    ELSE [dim |-> FallbackDimension, dir |-> (text + 3) % NumDirs, mag |-> 1]

embed_qa_pair(avail, q, a) == generate_embedding(avail, CombinedText(q, a))

\* embedding_vector column: <<>> is NULL, <<v>> is the JSON text of v
json_dumps(v) == <<v>>

json_loads(s) == s[1]

\* a column text that json.loads cannot parse
NotJson == [dim |-> -1, dir |-> 0, mag |-> 0]

\* json.loads raising is caught: the result is []
get_embedding_from_db(entry) ==
    IF entry.embedding_vector = <<>> THEN EmptyList
    ELSE IF entry.embedding_vector = <<NotJson>> THEN EmptyList
    ELSE json_loads(entry.embedding_vector)

NewEntry(avail, q, a, cat, source) ==
    [question |-> q, answer |-> a, category |-> cat, source |-> source,
     embedding_vector |-> json_dumps(embed_qa_pair(avail, q, a)),
     embedding_model |-> ModelName(avail), is_active |-> TRUE]

\* ----------------------------------------------------- VectorSearchEngine
NoIndex == [ok |-> FALSE, d |-> 0, vecs |-> <<>>]

IndexFlatIP(d) == [ok |-> TRUE, d |-> d, vecs |-> <<>>]

NoFile == [exists |-> FALSE, content |-> <<>>]

File(c) == [exists |-> TRUE, content |-> <<c>>]

\* mutant: the vector is indexed and compared as it is
keep_magnitude(v) == v

normalize_L2(v) == [v EXCEPT !.mag = 1]

ntotal(ix) == Len(ix.vecs)

MappedIds(m) == {p[2] : p \in m}

\* dict.get: 0 is None
MappingGet(m, pos) ==
    IF \E p \in m : p[1] = pos THEN (CHOOSE p \in m : p[1] = pos)[2] ELSE 0

\* dict[pos] = id
MappingSet(m, pos, id) == {p \in m : p[1] # pos} \cup {<<pos, id>>}

\* engine state threaded through the methods
Engine(ix, m, fi, fm) ==
    [index |-> ix, id_mapping |-> m, index_file |-> fi, mapping_file |-> fm]

save_index(e, fault) ==
    IF e.index.ok /\ fault # "save"
    THEN [e EXCEPT !.index_file = File(e.index),
                   !.mapping_file = File(e.id_mapping)]
    ELSE e

load_index(e, fault) ==
    IF e.index_file.exists /\ e.mapping_file.exists
    THEN IF fault = "load_index" THEN e
         ELSE IF fault = "load_mapping"
              THEN [e EXCEPT !.index = e.index_file.content[1]]
              ELSE [e EXCEPT !.index = e.index_file.content[1],
                             !.id_mapping = e.mapping_file.content[1]]
    ELSE e

\* mutant: the query without its is_active filter
AllIds(store) == 1..Len(store)

\* db.query(KnowledgeBase).filter(is_active == True).all(), in id order
ActiveIds(store) == {i \in 1..Len(store) : store[i].is_active}

ValidEntry(store, i, dim) ==
    LET v == get_embedding_from_db(store[i])
    IN v # EmptyList /\ v.dim = dim

ValidIds(store, dim) == {i \in ActiveIds(store) : ValidEntry(store, i, dim)}

\* mutant: an entry is mapped from its place among the entries read
RECURSIVE CollectValid_by_row(_, _, _, _)
CollectValid_by_row(store, dim, i, acc) ==
    IF i > Len(store) THEN acc
    ELSE IF i \in ValidIds(store, dim)
         THEN CollectValid_by_row(store, dim, i + 1,
                [vecs |-> Append(acc.vecs, normalize_L2(get_embedding_from_db(store[i]))),
                 map |-> MappingSet(acc.map, Cardinality({j \in ActiveIds(store) : j < i}), i)])
         ELSE CollectValid_by_row(store, dim, i + 1, acc)

\* the loop over kb_entries: the valid entries in query order, each mapped
\* from the position it gets in the embeddings list
RECURSIVE CollectValid(_, _, _, _)
CollectValid(store, dim, i, acc) ==
    IF i > Len(store) THEN acc
    ELSE IF i \in ValidIds(store, dim)
         THEN CollectValid(store, dim, i + 1,
                [vecs |-> Append(acc.vecs, normalize_L2(get_embedding_from_db(store[i]))),
                 map |-> MappingSet(acc.map, Len(acc.vecs), i)])
         ELSE CollectValid(store, dim, i + 1, acc)

rebuild_index(e, store, dim, fault) ==
    LET cleared == [e EXCEPT !.index = IndexFlatIP(dim), !.id_mapping = {}]
        built == CollectValid(store, dim, 1, [vecs |-> <<>>, map |-> {}])
        filled == [cleared EXCEPT !.index.vecs = built.vecs,
                                  !.id_mapping = built.map]
    IN IF fault = "query" THEN [e |-> cleared, ret |-> "False"]
       ELSE IF ActiveIds(store) = {}
            THEN [e |-> save_index(cleared, fault), ret |-> "True"]
            ELSE [e |-> save_index(filled, fault), ret |-> "True"]

\* mutant: a loaded index is served whatever its dimension
initialize_index_any_dimension(e, store, dim, fault) ==
    LET loaded == load_index(e, fault)
        cleared == [loaded EXCEPT !.index = IndexFlatIP(dim), !.id_mapping = {}]
        built == CollectValid(store, dim, 1, [vecs |-> <<>>, map |-> {}])
        filled == [cleared EXCEPT !.index.vecs = built.vecs,
                                  !.id_mapping = built.map]
        fresh ==
            IF fault = "query" THEN [e |-> cleared, ret |-> "raise"]
            ELSE IF ActiveIds(store) = {}
                 THEN [e |-> save_index(cleared, fault), ret |-> "True"]
                 ELSE IF built.vecs # <<>>
                      THEN [e |-> save_index(filled, fault), ret |-> "True"]
                      ELSE [e |-> filled, ret |-> "True"]
    IN IF e.index_file.exists /\ e.mapping_file.exists /\ loaded.index.ok
       THEN [e |-> loaded, ret |-> "True"]
       ELSE fresh

initialize_index(e, store, dim, fault) ==
    LET loaded == load_index(e, fault)
        cleared == [loaded EXCEPT !.index = IndexFlatIP(dim), !.id_mapping = {}]
        built == CollectValid(store, dim, 1, [vecs |-> <<>>, map |-> {}])
        filled == [cleared EXCEPT !.index.vecs = built.vecs,
                                  !.id_mapping = built.map]
        fresh ==
            IF fault = "query" THEN [e |-> cleared, ret |-> "raise"]
            ELSE IF ActiveIds(store) = {}
                 THEN [e |-> save_index(cleared, fault), ret |-> "True"]
                 ELSE IF built.vecs # <<>>
                      THEN [e |-> save_index(filled, fault), ret |-> "True"]
                      ELSE [e |-> filled, ret |-> "True"]
    IN IF e.index_file.exists /\ e.mapping_file.exists
       THEN IF ~loaded.index.ok THEN fresh
            ELSE IF loaded.index.d # dim
                 THEN rebuild_index(loaded, store, dim, fault)
                 ELSE [e |-> loaded, ret |-> "True"]
       ELSE fresh

\* mutant: the embedding is appended without its length being looked at
add_to_index_unchecked(e, entry, dim, fault) ==
    LET v == get_embedding_from_db(entry)
        added == [e EXCEPT !.index.vecs = Append(e.index.vecs, normalize_L2(v)),
                           !.id_mapping = MappingSet(e.id_mapping, ntotal(e.index), entry.id)]
    IN IF ~e.index.ok THEN [e |-> e, ret |-> "raise"]
       ELSE IF v = EmptyList THEN [e |-> e, ret |-> "raise"]
       ELSE [e |-> save_index(added, fault), ret |-> "True"]

\* mutant: the entry is mapped from the position after the new vector
add_to_index_mapping_after(e, entry, dim, fault) ==
    LET v == get_embedding_from_db(entry)
        current_size == ntotal(e.index) + 1
        added == [e EXCEPT !.index.vecs = Append(e.index.vecs, normalize_L2(v)),
                           !.id_mapping = MappingSet(e.id_mapping, current_size, entry.id)]
    IN IF ~e.index.ok THEN [e |-> e, ret |-> "raise"]
       ELSE IF v = EmptyList THEN [e |-> e, ret |-> "raise"]
       ELSE IF v.dim # dim THEN [e |-> e, ret |-> "raise"]
       ELSE IF fault = "add" \/ v.dim # e.index.d THEN [e |-> e, ret |-> "raise"]
       ELSE [e |-> save_index(added, fault), ret |-> "True"]

\* entry is a KnowledgeBase object with its id
add_to_index(e, entry, dim, fault) ==
    LET v == get_embedding_from_db(entry)
        current_size == ntotal(e.index)
        added == [e EXCEPT !.index.vecs = Append(e.index.vecs, normalize_L2(v)),
                           !.id_mapping = MappingSet(e.id_mapping, current_size, entry.id)]
    IN IF ~e.index.ok THEN [e |-> e, ret |-> "raise"]
       ELSE IF v = EmptyList THEN [e |-> e, ret |-> "raise"]
       ELSE IF v.dim # dim THEN [e |-> e, ret |-> "raise"]
       ELSE IF fault = "add" \/ v.dim # e.index.d THEN [e |-> e, ret |-> "raise"]
       ELSE [e |-> save_index(added, fault), ret |-> "True"]

\* inner product of two vectors
InnerProduct(a, b) == a.mag * b.mag * CosTable[((a.dir - b.dir + NumDirs) % NumDirs) + 1]

Min(a, b) == IF a < b THEN a ELSE b

\* index.search: the n best positions (0-based) by inner product with the
\* query, best first, equal scores in position order
RECURSIVE TopK(_, _, _, _)
TopK(ix, qv, n, taken) ==
    IF n = 0 THEN <<>>
    ELSE LET rest == (0..(ntotal(ix) - 1)) \ taken
             sc(p) == InnerProduct(qv, ix.vecs[p + 1])
             best == CHOOSE p \in rest :
                        \A o \in rest : sc(p) > sc(o) \/ (sc(p) = sc(o) /\ p <= o)
         IN <<[idx |-> best, score |-> sc(best)]>>
              \o TopK(ix, qv, n - 1, taken \cup {best})

\* the loop over zip(scores[0], indices[0])
RECURSIVE ProcessHits(_, _, _, _)
ProcessHits(hits, m, threshold, i) ==
    IF i > Len(hits) THEN <<>>
    ELSE LET kb_id == MappingGet(m, hits[i].idx)
             tail == ProcessHits(hits, m, threshold, i + 1)
         IN IF hits[i].score < threshold THEN tail
            ELSE IF kb_id = 0 THEN tail
            ELSE <<[kb_id |-> kb_id, similarity_score |-> hits[i].score,
                    rank |-> i, index_position |-> hits[i].idx]>> \o tail

\* the body of search once an index e1 is in service; zeroK is what
\* index.search does when asked for 0 neighbours ("assert" or "empty", by
\* FAISS version)
answer_query(e1, avail, dim, query, k, threshold, fault, zeroK) ==
    LET qv == normalize_L2(generate_embedding(avail, query))
        n == Min(k, ntotal(e1.index))
        Raise(r) == [e |-> e1, ret |-> r, results |-> <<>>]
    IN IF query = 0 THEN Raise("empty_query")
       ELSE IF fault = "embed" THEN Raise("failed")
       ELSE IF qv.dim # dim THEN Raise("dimension_mismatch")
       ELSE IF qv.dim # e1.index.d THEN Raise("failed")
       ELSE IF n = 0 /\ zeroK = "assert" THEN Raise("failed")
       ELSE [e |-> e1, ret |-> "ok",
             results |-> ProcessHits(TopK(e1.index, qv, n, {}), e1.id_mapping, threshold, 1)]

\* search after its call of initialize_index, whose outcome is init
auto_initialized(init, avail, dim, query, k, threshold, fault, zeroK) ==
    IF init.ret = "raise"
    THEN [e |-> init.e, ret |-> "init_raised", results |-> <<>>]
    ELSE IF init.ret = "False"
    THEN [e |-> init.e, ret |-> "not_initialized_init_failed", results |-> <<>>]
    ELSE answer_query(init.e, avail, dim, query, k, threshold, fault, zeroK)

\* mutant: a missing index is an error, session or not
search_no_auto_init(e, store, avail, dim, query, k, threshold, db, fault, zeroK) ==
    IF e.index.ok
    THEN answer_query(e, avail, dim, query, k, threshold, fault, zeroK)
    ELSE [e |-> e, ret |-> "not_initialized_no_db", results |-> <<>>]

\* db says whether a session was passed
search(e, store, avail, dim, query, k, threshold, db, fault, zeroK) ==
    IF e.index.ok
    THEN answer_query(e, avail, dim, query, k, threshold, fault, zeroK)
    ELSE IF ~db
    THEN [e |-> e, ret |-> "not_initialized_no_db", results |-> <<>>]
    ELSE auto_initialized(initialize_index(e, store, dim, fault),
                          avail, dim, query, k, threshold, fault, zeroK)

\* the hydration loop: kb_lookup has every entry whose id is in kb_ids
RECURSIVE Hydrate(_, _, _)
Hydrate(rs, store, i) ==
    IF i > Len(rs) THEN <<>>
    ELSE LET id == rs[i].kb_id
             tail == Hydrate(rs, store, i + 1)
         IN IF id \in 1..Len(store)
            THEN <<[kb_id |-> id, question |-> store[id].question,
                    answer |-> store[id].answer, category |-> store[id].category,
                    similarity_score |-> rs[i].similarity_score,
                    rank |-> rs[i].rank]>> \o tail
            ELSE tail

\* mutant: what search raises is passed on to the caller
detailed_results_raising(s, store, db, fault) ==
    IF s.ret # "ok" THEN s
    ELSE IF s.results = <<>> \/ ~db THEN s
    ELSE IF fault = "hydrate" THEN [e |-> s.e, ret |-> "failed", results |-> <<>>]
    ELSE [e |-> s.e, ret |-> "ok", results |-> Hydrate(s.results, store, 1)]

\* search_with_details after its call of search, whose outcome is s; the
\* except clause turns what search or the hydration query raised into []
detailed_results(s, store, db, fault) ==
    IF s.ret # "ok" THEN [e |-> s.e, ret |-> "ok", results |-> <<>>]
    ELSE IF s.results = <<>> \/ ~db THEN s
    ELSE IF fault = "hydrate" THEN [e |-> s.e, ret |-> "ok", results |-> <<>>]
    ELSE [e |-> s.e, ret |-> "ok", results |-> Hydrate(s.results, store, 1)]

search_with_details(e, store, avail, dim, query, k, threshold, db, fault, zeroK) ==
    detailed_results(search(e, store, avail, dim, query, k, threshold, db, fault, zeroK),
                     store, db, fault)

RECURSIVE FilterCategory(_, _, _)
FilterCategory(rs, category, i) ==
    IF i > Len(rs) THEN <<>>
    ELSE IF rs[i].category = category
         THEN <<rs[i]>> \o FilterCategory(rs, category, i + 1)
         ELSE FilterCategory(rs, category, i + 1)

\* mutant: the results that are kept are ranked anew
filtered_results_reranked(s, category) ==
    IF category # 0
    THEN [s EXCEPT !.results =
            [i \in 1..Len(FilterCategory(s.results, category, 1)) |->
                [FilterCategory(s.results, category, 1)[i] EXCEPT !.rank = i]]]
    ELSE s

\* search_qa_pairs after its call of search_with_details, whose outcome is
\* s; category 0 is None: no filter
filtered_results(s, category) ==
    IF category # 0
    THEN [s EXCEPT !.results = FilterCategory(s.results, category, 1)]
    ELSE s

search_qa_pairs(e, store, avail, dim, query, k, threshold, category, fault, zeroK) ==
    filtered_results(search_with_details(e, store, avail, dim, query, k, threshold,
                                         TRUE, fault, zeroK),
                     category)

\* ------------------------------------------------- EmbeddingsService (db)
\* ret is the new entry's id, or 0 when the call raised
store_embedding(store, avail, q, a, cat, source, fault) ==
    IF fault = "embed" THEN [kb |-> store, ret |-> 0]
    ELSE [kb |-> Append(store, NewEntry(avail, q, a, cat, source)), ret |-> Len(store) + 1]

\* mutant: the text is replaced, the embedding kept
update_embedding_text_only(store, avail, kb_id, q, a, fault) ==
    IF kb_id \notin 1..Len(store) \/ fault = "embed" THEN [kb |-> store, ret |-> FALSE]
    ELSE [kb |-> [store EXCEPT ![kb_id].question = q, ![kb_id].answer = a],
          ret |-> TRUE]

\* mutant: an update brings a deleted entry back
update_embedding_reactivating(store, avail, kb_id, q, a, fault) ==
    IF kb_id \notin 1..Len(store) \/ fault = "embed" THEN [kb |-> store, ret |-> FALSE]
    ELSE [kb |-> [store EXCEPT ![kb_id].question = q,
                               ![kb_id].answer = a,
                               ![kb_id].embedding_vector = json_dumps(embed_qa_pair(avail, q, a)),
                               ![kb_id].embedding_model = ModelName(avail),
                               ![kb_id].is_active = TRUE],
          ret |-> TRUE]

update_embedding(store, avail, kb_id, q, a, fault) ==
    IF kb_id \notin 1..Len(store) THEN [kb |-> store, ret |-> FALSE]
    ELSE IF fault = "embed" THEN [kb |-> store, ret |-> FALSE]
    ELSE [kb |-> [store EXCEPT ![kb_id].question = q,
                               ![kb_id].answer = a,
                               ![kb_id].embedding_vector = json_dumps(embed_qa_pair(avail, q, a)),
                               ![kb_id].embedding_model = ModelName(avail)],
          ret |-> TRUE]

\* pairs is a sequence of [question, answer, category]
RECURSIVE batch_entries(_, _, _)
batch_entries(avail, pairs, i) ==
    IF i > Len(pairs) THEN <<>>
    ELSE <<NewEntry(avail, pairs[i].question, pairs[i].answer, pairs[i].category,
                    pairs[i].source)>>
            \o batch_entries(avail, pairs, i + 1)

\* ret is the number of entries stored, or -1 when the call raised
batch_store_embeddings(store, avail, pairs, fault) ==
    IF fault = "embed" THEN [kb |-> store, ret |-> -1]
    ELSE [kb |-> store \o batch_entries(avail, pairs, 1), ret |-> Len(pairs)]

\* ret is the number of entries re-embedded, or -1 when the call raised
rebuild_embeddings(store, avail, fault) ==
    IF ActiveIds(store) = {} THEN [kb |-> store, ret |-> 0]
    ELSE IF fault = "embed" THEN [kb |-> store, ret |-> -1]
    ELSE [kb |-> [i \in 1..Len(store) |->
                    IF store[i].is_active
                    THEN [store[i] EXCEPT
                            !.embedding_vector =
                                json_dumps(embed_qa_pair(avail, store[i].question, store[i].answer)),
                            !.embedding_model = ModelName(avail)]
                    ELSE store[i]],
          ret |-> Cardinality(ActiveIds(store))]

\* ------------------------------------------------------------- QAManager
CurrentEngine == Engine(index, id_mapping, index_file, mapping_file)

SetEngine(e) ==
    /\ index' = e.index
    /\ id_mapping' = e.id_mapping
    /\ index_file' = e.index_file
    /\ mapping_file' = e.mapping_file

\* one more fault is spent when the handler is run with one
Env(fault) ==
    /\ fault # "none" => faults < MaxFaults
    /\ faults' = IF fault = "none" THEN faults ELSE faults + 1
    /\ UNCHANGED <<restarts, threads>>

\* what the last call was, what it returned and how its index step ended
Last(op, ret, index_step) ==
    [op |-> op, ret |-> ret, index_step |-> index_step]

\* mutant: a failed index step undoes the store write and fails the call
create_qa_pair_rollback(q, a, cat, fault) ==
    /\ Len(kb) < MaxEntries
    /\ LET st == store_embedding(kb, is_available, q, a, cat, DefaultSource, fault)
           e0 == CurrentEngine
           init == initialize_index(e0, st.kb, dimension, fault)
           e1 == IF e0.index.ok THEN e0 ELSE init.e
           entry == [id |-> st.ret,
                     embedding_vector |-> st.kb[st.ret].embedding_vector]
           add == add_to_index(e1, entry, dimension, fault)
           initRaised == ~e0.index.ok /\ init.ret = "raise"
       IN IF st.ret = 0
          THEN /\ UNCHANGED <<kb, index, id_mapping, index_file, mapping_file>>
               /\ last' = Last("create_qa_pair", "None", "none")
          ELSE IF initRaised \/ add.ret = "raise"
          THEN /\ UNCHANGED kb
               /\ SetEngine(IF initRaised THEN e1 ELSE add.e)
               /\ last' = Last("create_qa_pair", "None", "failed")
          ELSE /\ kb' = st.kb
               /\ SetEngine(add.e)
               /\ last' = Last("create_qa_pair",
                               IF fault = "legacy" THEN "None" ELSE "entry", "ok")
    /\ Env(fault)
    /\ UNCHANGED <<is_available, dimension>>

\* the store, the engine and the return value create_qa_pair leaves behind:
\* ret is "entry" or "None"; index_step is "ok" or "failed"
qa_create(e0, store, avail, dim, q, a, cat, source, fault) ==
    LET st == store_embedding(store, avail, q, a, cat, source, fault)
        init == initialize_index(e0, st.kb, dim, fault)
        e1 == IF e0.index.ok THEN e0 ELSE init.e
        entry == [id |-> st.ret,
                  embedding_vector |-> st.kb[st.ret].embedding_vector]
        add == add_to_index(e1, entry, dim, fault)
        initRaised == ~e0.index.ok /\ init.ret = "raise"
        e2 == IF initRaised THEN e1 ELSE add.e
        step == IF initRaised \/ add.ret = "raise" THEN "failed" ELSE "ok"
    IN IF st.ret = 0
       THEN [kb |-> store, e |-> e0, ret |-> "None", index_step |-> "none"]
       ELSE [kb |-> st.kb, e |-> e2,
             ret |-> IF fault = "legacy" THEN "None" ELSE "entry",
             index_step |-> step]

\* the outcome r of a QAManager call becomes the state
Returned(op, r) ==
    /\ kb' = r.kb
    /\ SetEngine(r.e)
    /\ last' = Last(op, r.ret, r.index_step)

create_qa_pair(q, a, cat, fault) ==
    /\ Len(kb) < MaxEntries
    /\ Returned("create_qa_pair",
                qa_create(CurrentEngine, kb, is_available, dimension, q, a, cat, DefaultSource,
                          fault))
    /\ Env(fault)
    /\ UNCHANGED <<is_available, dimension>>

\* category 0 is None: the category is left alone
update_qa_pair(kb_id, q, a, cat, fault) ==
    /\ LET up == update_embedding(kb, is_available, kb_id, q, a, fault)
           st == IF cat # 0 THEN [up.kb EXCEPT ![kb_id].category = cat] ELSE up.kb
           rb == rebuild_index(CurrentEngine, st, dimension, fault)
       IN IF up.ret
          THEN /\ kb' = st
               /\ SetEngine(rb.e)
               /\ last' = Last("update_qa_pair", "True", rb.ret)
          ELSE /\ UNCHANGED <<kb, index, id_mapping, index_file, mapping_file>>
               /\ last' = Last("update_qa_pair", "False", "none")
    /\ Env(fault)
    /\ UNCHANGED <<is_available, dimension>>

\* mutant: the deleted entry also loses its stored embedding
delete_qa_pair_dropping_embedding(kb_id, fault) ==
    /\ LET st == [kb EXCEPT ![kb_id].is_active = FALSE,
                            ![kb_id].embedding_vector = <<>>]
           rb == rebuild_index(CurrentEngine, st, dimension, fault)
       IN IF kb_id \in 1..Len(kb)
          THEN /\ kb' = st
               /\ SetEngine(rb.e)
               /\ last' = Last("delete_qa_pair", "True", rb.ret)
          ELSE /\ UNCHANGED <<kb, index, id_mapping, index_file, mapping_file>>
               /\ last' = Last("delete_qa_pair", "False", "none")
    /\ Env(fault)
    /\ UNCHANGED <<is_available, dimension>>

delete_qa_pair(kb_id, fault) ==
    /\ LET st == [kb EXCEPT ![kb_id].is_active = FALSE]
           rb == rebuild_index(CurrentEngine, st, dimension, fault)
       IN IF kb_id \in 1..Len(kb)
          THEN /\ kb' = st
               /\ SetEngine(rb.e)
               /\ last' = Last("delete_qa_pair", "True", rb.ret)
          ELSE /\ UNCHANGED <<kb, index, id_mapping, index_file, mapping_file>>
               /\ last' = Last("delete_qa_pair", "False", "none")
    /\ Env(fault)
    /\ UNCHANGED <<is_available, dimension>>

\* mutant: the entries are stored and the index is left as it was
qa_batch_create_no_rebuild(e0, store, avail, dim, pairs, fault) ==
    LET st == batch_store_embeddings(store, avail, pairs, fault)
    IN IF st.ret = -1
       THEN [kb |-> store, e |-> e0, ret |-> "empty", index_step |-> "none"]
       ELSE [kb |-> st.kb, e |-> e0,
             ret |-> IF fault = "legacy" THEN "empty" ELSE "entries",
             index_step |-> "True"]

\* the store, the engine and the return value batch_create_qa_pairs leaves
\* behind: ret is "entries" or "empty" (the [] of the except clause)
qa_batch_create(e0, store, avail, dim, pairs, fault) ==
    LET st == batch_store_embeddings(store, avail, pairs, fault)
        rb == rebuild_index(e0, st.kb, dim, fault)
    IN IF st.ret = -1
       THEN [kb |-> store, e |-> e0, ret |-> "empty", index_step |-> "none"]
       ELSE [kb |-> st.kb, e |-> rb.e,
             ret |-> IF fault = "legacy" THEN "empty" ELSE "entries",
             index_step |-> rb.ret]

batch_create_qa_pairs(pairs, fault) ==
    /\ Len(kb) + Len(pairs) <= MaxEntries
    /\ Returned("batch_create_qa_pairs",
                qa_batch_create(CurrentEngine, kb, is_available, dimension, pairs, fault))
    /\ Env(fault)
    /\ UNCHANGED <<is_available, dimension>>

\* QAManager.rebuild_embeddings: re-embed, then rebuild the index
rebuild_embeddings_and_index(fault) ==
    /\ LET st == rebuild_embeddings(kb, is_available, fault)
           rb == rebuild_index(CurrentEngine, st.kb, dimension, fault)
       IN IF st.ret = -1
          THEN /\ UNCHANGED <<kb, index, id_mapping, index_file, mapping_file>>
               /\ last' = Last("rebuild_embeddings", "False", "none")
          ELSE /\ kb' = st.kb
               /\ SetEngine(rb.e)
               /\ last' = Last("rebuild_embeddings", rb.ret, rb.ret)
    /\ Env(fault)
    /\ UNCHANGED <<is_available, dimension>>

\* ------------------------------------------------ QAManager read operations
\* get_qa_pair: the entry's id, 0 for None
get_qa_pair(store, kb_id) == IF kb_id \in ActiveIds(store) THEN kb_id ELSE 0

\* the ids of set ids not above n, highest first: order_by(created_at.desc())
\* for entries whose created_at follows their id
RECURSIVE Descending(_, _)
Descending(ids, n) ==
    IF n = 0 THEN <<>>
    ELSE IF n \in ids THEN <<n>> \o Descending(ids, n - 1)
    ELSE Descending(ids, n - 1)

\* offset(offset).limit(limit) on a result list
Page(rows, limit, offset) ==
    SubSeq(rows, offset + 1, Min(Len(rows), offset + limit))

\* mutant: the listing without its is_active filter
list_qa_pairs_all(store, category, source, limit, offset) ==
    LET query == {i \in AllIds(store) :
                    /\ category # 0 => store[i].category = category
                    /\ source # "" => store[i].source = source}
    IN Page(Descending(query, Len(store)), limit, offset)

\* list_qa_pairs: category 0 and source "" are None, no filter; the ids
\* of the entries returned
list_qa_pairs(store, category, source, limit, offset) ==
    LET query == {i \in ActiveIds(store) :
                    /\ category # 0 => store[i].category = category
                    /\ source # "" => store[i].source = source}
    IN Page(Descending(query, Len(store)), limit, offset)

\* get_categories: the distinct categories of the active entries, None
\* left out
get_categories(store) == {store[i].category : i \in ActiveIds(store)} \ {0}

\* get_sources: the distinct sources of the active entries, None and ""
\* left out
get_sources(store) == {store[i].source : i \in ActiveIds(store)} \ {""}

\* ------------------------------------------- EmbeddingsService on strings
\* a text is a string of letters and blanks
Chars == {"a", " "}

Texts == UNION {[1..n -> Chars] : n \in 0..MaxTextLen}

\* __init__: the primary model serves when sentence_transformers is
\* installed and SentenceTransformer(model_name) loads, else
\* _fallback_to_basic
service_is_available(installed, loads) == installed /\ loads

\* str.split(): the words of t from character i on; word is the word
\* being read
RECURSIVE split_from(_, _, _, _)
split_from(t, i, word, acc) ==
    IF i > Len(t) THEN IF word = <<>> THEN acc ELSE Append(acc, word)
    ELSE IF t[i] = " "
         THEN split_from(t, i + 1, <<>>, IF word = <<>> THEN acc ELSE Append(acc, word))
         ELSE split_from(t, i + 1, Append(word, t[i]), acc)

split(t) == split_from(t, 1, <<>>, <<>>)

\* ' '.join(words)
RECURSIVE join(_)
join(words) ==
    IF words = <<>> THEN <<>>
    ELSE IF Len(words) = 1 THEN words[1]
    ELSE words[1] \o <<" ">> \o join(Tail(words))

\* _clean_text
clean_text(avail, text) ==
    LET t == join(split(text))
        words == split(t)
        max_chars == max_tokens * 4
    IN IF text = <<>> THEN <<>>
       ELSE IF avail
            THEN IF Len(words) > max_tokens
                 THEN join(SubSeq(words, 1, max_tokens)) ELSE t
            ELSE IF Len(t) > max_chars THEN SubSeq(t, 1, max_chars) ELSE t

\* self.model.encode(text).tolist(): a vector of the model's dimension
\* that the text determines
encode(text) == [dim |-> PrimaryDimension, text |-> text]

\* _generate_basic_embedding: 128 features that the text determines
generate_basic_embedding(text) == [dim |-> FallbackDimension, text |-> text]

\* generate_embedding on a string; fault "embed" is model.encode raising,
\* which the except clause logs and raises again
generate_embedding_text(avail, text, fault) ==
    IF avail
    THEN IF fault = "embed" THEN [ret |-> "raise", vecs |-> <<>>]
         ELSE [ret |-> "ok", vecs |-> <<encode(clean_text(avail, text))>>]
    ELSE [ret |-> "ok", vecs |-> <<generate_basic_embedding(clean_text(avail, text))>>]

\* mutant: the batch is encoded as it comes
generate_embeddings_batch_uncleaned(avail, texts, fault) ==
    IF avail
    THEN IF fault = "embed" THEN [ret |-> "raise", vecs |-> <<>>]
         ELSE [ret |-> "ok",
               vecs |-> [i \in 1..Len(texts) |-> encode(texts[i])]]
    ELSE [ret |-> "ok",
          vecs |-> [i \in 1..Len(texts) |->
                        generate_embedding_text(avail, texts[i], "none").vecs[1]]]

\* generate_embeddings_batch: one encode call for the cleaned texts in
\* primary mode, generate_embedding text by text in fallback mode
generate_embeddings_batch(avail, texts, fault) ==
    IF avail
    THEN IF fault = "embed" THEN [ret |-> "raise", vecs |-> <<>>]
         ELSE [ret |-> "ok",
               vecs |-> [i \in 1..Len(texts) |-> encode(clean_text(avail, texts[i]))]]
    ELSE [ret |-> "ok",
          vecs |-> [i \in 1..Len(texts) |->
                        generate_embedding_text(avail, texts[i], "none").vecs[1]]]

\* a call of the service and what it returned
Embedded(op, texts, fault, r) ==
    /\ fault = "embed" => is_available
    /\ last' = [op |-> op, ret |-> r.ret, index_step |-> "none",
                texts |-> texts, encode_failed |-> (fault = "embed"),
                vecs |-> r.vecs]
    /\ Env(fault)
    /\ UNCHANGED <<kb, is_available, dimension, index, id_mapping,
                   index_file, mapping_file>>

GenerateEmbedding(text, fault) ==
    Embedded("generate_embedding", <<text>>, fault,
             generate_embedding_text(is_available, text, fault))

GenerateEmbeddingsBatch(texts, fault) ==
    Embedded("generate_embeddings_batch", texts, fault,
             generate_embeddings_batch(is_available, texts, fault))

\* a new process: get_embeddings_service builds the service, the engine
\* has no index yet
NewService(installed, loads) ==
    /\ is_available' = service_is_available(installed, loads)
    /\ dimension' = EmbeddingDimension(service_is_available(installed, loads))
    /\ index' = NoIndex
    /\ id_mapping' = {}
    /\ last' = [op |-> "init", ret |-> "none", index_step |-> "none",
                installed |-> installed, loads |-> loads]
    /\ UNCHANGED <<kb, index_file, mapping_file, faults, restarts, threads>>

\* ------------------- rebuild_index and search, one statement at a time
\* The engine is one object for the process (get_vector_search_engine) and
\* its methods take no lock: calls made from several threads interleave
\* between statements.  A thread reads self.index and self.id_mapping anew
\* at every statement that names them.
Rebuilders == 1..MaxRebuilders

\* the locals of a call of rebuild_index; kb_entries is the result of the
\* query, next the entry the loop is at
IdleRebuild == [pc |-> "idle", kb_entries |-> {}, next |-> 0, embeddings |-> <<>>]

\* the locals of a call of search; seen_index and seen_mapping are the
\* index and the mapping the call has used, allowed the complete
\* (index, mapping) pairs from before and after the rebuilds it has met
IdleSearch ==
    [pc |-> "idle", hits |-> <<>>, results |-> <<>>, ret |-> "none",
     seen_index |-> NoIndex, seen_mapping |-> {}, met_rebuild |-> FALSE,
     allowed |-> {}]

\* before: index and mapping when the first of the running rebuilds began;
\* overlapped: a rebuild began while another was running; calls: the calls
\* made so far
NoThreads ==
    [rebuild |-> [t \in Rebuilders |-> IdleRebuild], search |-> IdleSearch,
     before |-> <<NoIndex, {}>>, overlapped |-> FALSE, calls |-> 0]

Running(r) == r.pc \notin {"idle", "returned"}

RebuildRunning == \E t \in Rebuilders : Running(threads.rebuild[t])

NoThreadRunning == ~RebuildRunning /\ ~Running(threads.search)

\* index and mapping as one whole rebuild leaves them
Rebuilt(store, dim) ==
    LET built == CollectValid(store, dim, 1, [vecs |-> <<>>, map |-> {}])
    IN <<[IndexFlatIP(dim) EXCEPT !.vecs = built.vecs], built.map>>

\* self.index = faiss.IndexFlatIP(self.dimension)
RebuildClearIndex(t) ==
    /\ ~Running(threads.rebuild[t])
    /\ threads.calls < MaxCalls
    /\ index' = IndexFlatIP(dimension)
    /\ threads' =
        [threads EXCEPT
            !.calls = @ + 1,
            !.rebuild[t] = [IdleRebuild EXCEPT !.pc = "clear_mapping"],
            !.before = IF RebuildRunning THEN @ ELSE <<index, id_mapping>>,
            !.overlapped = RebuildRunning,
            !.search.met_rebuild = @ \/ Running(threads.search),
            !.search.allowed =
                IF Running(threads.search)
                THEN @ \cup {Rebuilt(kb, dimension)}
                ELSE @]
    /\ UNCHANGED <<kb, is_available, dimension, id_mapping, index_file,
                   mapping_file, last, faults, restarts>>

\* self.id_mapping = {}
RebuildClearMapping(t) ==
    /\ threads.rebuild[t].pc = "clear_mapping"
    /\ id_mapping' = {}
    /\ threads' = [threads EXCEPT !.rebuild[t].pc = "query"]
    /\ UNCHANGED <<kb, is_available, dimension, index, index_file,
                   mapping_file, last, faults, restarts>>

\* kb_entries = db.query(KnowledgeBase).filter(is_active == True).all();
\* with no entry the empty index is saved next
RebuildQuery(t) ==
    /\ threads.rebuild[t].pc = "query"
    /\ threads' =
        [threads EXCEPT
            !.rebuild[t].kb_entries = ActiveIds(kb),
            !.rebuild[t].next = 1,
            !.rebuild[t].pc = IF ActiveIds(kb) = {} THEN "save" ELSE "loop"]
    /\ UNCHANGED <<kb, is_available, dimension, index, id_mapping, index_file,
                   mapping_file, last, faults, restarts>>

\* one turn of the loop over kb_entries, for the entry with id next
RebuildLoop(t) ==
    LET r == threads.rebuild[t]
        valid == r.next \in r.kb_entries /\ ValidEntry(kb, r.next, dimension)
    IN /\ r.pc = "loop"
       /\ r.next <= Len(kb)
       /\ id_mapping' =
            IF valid THEN MappingSet(id_mapping, Len(r.embeddings), r.next)
            ELSE id_mapping
       /\ threads' =
            [threads EXCEPT
                !.rebuild[t].embeddings =
                    IF valid THEN Append(@, get_embedding_from_db(kb[r.next])) ELSE @,
                !.rebuild[t].next = @ + 1]
       /\ UNCHANGED <<kb, is_available, dimension, index, index_file,
                      mapping_file, last, faults, restarts>>

\* faiss.normalize_L2(embeddings_array); self.index.add(embeddings_array)
RebuildAdd(t) ==
    LET r == threads.rebuild[t]
    IN /\ r.pc = "loop"
       /\ r.next > Len(kb)
       /\ index' =
            [index EXCEPT !.vecs =
                @ \o [j \in 1..Len(r.embeddings) |-> normalize_L2(r.embeddings[j])]]
       /\ threads' = [threads EXCEPT !.rebuild[t].pc = "save"]
       /\ UNCHANGED <<kb, is_available, dimension, id_mapping, index_file,
                      mapping_file, last, faults, restarts>>

\* self.save_index(); return True
RebuildSave(t) ==
    /\ threads.rebuild[t].pc = "save"
    /\ SetEngine(save_index(CurrentEngine, "none"))
    /\ threads' = [threads EXCEPT !.rebuild[t] = [IdleRebuild EXCEPT !.pc = "returned"]]
    /\ last' = Last("rebuild_index", "True", "True")
    /\ UNCHANGED <<kb, is_available, dimension, faults, restarts>>

\* search(query, k, threshold) without a session, up to the embedding of
\* the query: a missing index raises
SearchBegin(query, fault) ==
    LET qv == normalize_L2(generate_embedding(is_available, query))
        raised == ~index.ok \/ query = 0 \/ fault = "embed"
                    \/ qv.dim # dimension
    IN /\ ~Running(threads.search)
       /\ threads.calls < MaxCalls
       /\ threads' =
            [threads EXCEPT !.calls = @ + 1, !.search =
                [IdleSearch EXCEPT
                    !.pc = IF raised THEN "returned" ELSE "index_search",
                    !.ret = IF raised THEN "raise" ELSE "none",
                    !.met_rebuild = RebuildRunning,
                    !.allowed = IF RebuildRunning
                                THEN {threads.before, Rebuilt(kb, dimension)}
                                ELSE {<<index, id_mapping>>}]]
       /\ last' = IF raised THEN Last("search", "raise", "none") ELSE last
       /\ UNCHANGED <<kb, is_available, dimension, index, id_mapping,
                      index_file, mapping_file, faults, restarts>>

\* scores, indices = self.index.search(query_array, min(k, self.index.ntotal))
SearchIndex(query, k, zeroK) ==
    LET qv == normalize_L2(generate_embedding(is_available, query))
        n == Min(k, ntotal(index))
        raised == qv.dim # index.d \/ (n = 0 /\ zeroK = "assert")
    IN /\ threads.search.pc = "index_search"
       /\ threads' =
            [threads EXCEPT
                !.search.seen_index = index,
                !.search.hits = IF raised THEN <<>> ELSE TopK(index, qv, n, {}),
                !.search.pc = IF raised THEN "returned" ELSE "process",
                !.search.ret = IF raised THEN "raise" ELSE "none"]
       /\ last' = IF raised THEN Last("search", "raise", "none") ELSE last
       /\ UNCHANGED <<kb, is_available, dimension, index, id_mapping,
                      index_file, mapping_file, faults, restarts>>

\* the loop over the hits, with self.id_mapping.get(idx); return results
SearchProcess(threshold) ==
    /\ threads.search.pc = "process"
    /\ threads' =
        [threads EXCEPT
            !.search.seen_mapping = id_mapping,
            !.search.results = ProcessHits(threads.search.hits, id_mapping, threshold, 1),
            !.search.hits = <<>>,
            !.search.pc = "returned",
            !.search.ret = "ok"]
    /\ last' = Last("search", "ok", "none")
    /\ UNCHANGED <<kb, is_available, dimension, index, id_mapping,
                   index_file, mapping_file, faults, restarts>>

\* ---------------------------------------------------------- corpus loaders
CorpusSource == "dental_corpus"

\* get_dental_corpus: entry i asks question i; its category is a label of
\* the corpus
get_dental_corpus ==
    [i \in 1..CorpusSize |->
        [question |-> i, answer |-> 1, category |-> NumCategories + 1,
         source |-> CorpusSource]]

\* mutant: the loader does not look for the entry in the store
never_existing(store, pair) == FALSE

\* the query for an entry with the question and the corpus source, active
\* or not
existing(store, pair) ==
    \E j \in 1..Len(store) :
        store[j].question = pair.question /\ store[j].source = CorpusSource

\* the loop of load_dental_corpus from entry i on; the call for entry `at`
\* meets the failure `fault` ("exists": the query for the existing entry
\* raises), which the loop logs before it goes on
RECURSIVE load_loop(_, _, _, _, _, _, _, _)
RECURSIVE load_created(_, _, _, _, _, _, _)
load_loop(e, store, avail, dim, i, count, fault, at) ==
    IF i > CorpusSize
    THEN [kb |-> store, e |-> e, ret |-> IF count = 0 THEN "0" ELSE "loaded",
          index_step |-> "none"]
    ELSE IF (i = at /\ fault = "exists") \/ existing(store, get_dental_corpus[i])
    THEN load_loop(e, store, avail, dim, i + 1, count, fault, at)
    ELSE load_created(qa_create(e, store, avail, dim, get_dental_corpus[i].question,
                                get_dental_corpus[i].answer,
                                get_dental_corpus[i].category,
                                get_dental_corpus[i].source,
                                IF i = at THEN fault ELSE "none"),
                      avail, dim, i, count, fault, at)

\* the loop after create_qa_pair has returned c for entry i
load_created(c, avail, dim, i, count, fault, at) ==
    load_loop(c.e, c.kb, avail, dim, i + 1,
              IF c.ret = "entry" THEN count + 1 ELSE count, fault, at)

load_dental_corpus(e, store, avail, dim, fault, at) ==
    load_loop(e, store, avail, dim, 1, 0, fault, at)

\* self.qa_manager.embeddings_service.KnowledgeBase: KnowledgeBase is a name
\* of the module embeddings_service, not an attribute of the EmbeddingsService
\* object, so evaluating the query raises AttributeError
service_has_KnowledgeBase == FALSE

\* DentalCorpusLoader.load_corpus: ret is "True" or "False"
load_corpus(e, store, avail, dim, fault) ==
    LET existing_count ==
            Cardinality({j \in 1..Len(store) : store[j].source = CorpusSource})
        batch == qa_batch_create(e, store, avail, dim, get_dental_corpus, fault)
    IN IF ~service_has_KnowledgeBase
       THEN [kb |-> store, e |-> e, ret |-> "False", index_step |-> "none"]
       ELSE IF existing_count > 0
       THEN [kb |-> store, e |-> e, ret |-> "True", index_step |-> "none"]
       ELSE [batch EXCEPT !.ret = IF batch.ret = "entries" THEN "True" ELSE "False"]

LoadFaults == CreateFaults \cup {"exists"}

LoadDentalCorpus(fault, at) ==
    /\ Len(kb) <= MaxEntries + CorpusSize
    /\ Returned("load_dental_corpus",
                load_dental_corpus(CurrentEngine, kb, is_available, dimension, fault, at))
    /\ Env(fault)
    /\ UNCHANGED <<is_available, dimension>>

LoadCorpus(fault) ==
    /\ Len(kb) <= MaxEntries + CorpusSize
    /\ Returned("load_corpus",
                load_corpus(CurrentEngine, kb, is_available, dimension, fault))
    /\ Env(fault)
    /\ UNCHANGED <<is_available, dimension>>

\* ------------------------------------------- engine methods called directly
RebuildIndex(fault) ==
    /\ LET rb == rebuild_index(CurrentEngine, kb, dimension, fault)
       IN /\ SetEngine(rb.e)
          /\ last' = Last("rebuild_index", rb.ret, rb.ret)
    /\ Env(fault)
    /\ UNCHANGED <<kb, is_available, dimension>>

InitializeIndex(fault) ==
    /\ LET r == initialize_index(CurrentEngine, kb, dimension, fault)
       IN /\ SetEngine(r.e)
          /\ last' = Last("initialize_index", r.ret,
                          IF index_file.exists /\ mapping_file.exists
                             /\ index_file.content[1].d # dimension
                          THEN "mismatch" ELSE "none")
    /\ Env(fault)
    /\ UNCHANGED <<kb, is_available, dimension>>

\* the entries add_to_index can be given: an entry without an embedding or
\* with one of either mode
AddCandidates ==
    {[id |-> i, embedding_vector |-> ev] :
        i \in 1..MaxEntries,
        ev \in {<<>>} \cup {json_dumps(embed_qa_pair(av, q, a)) :
                                av \in BOOLEAN, q \in Questions, a \in Answers}}

AddFaults == {"none", "add", "save"}

AddToIndex(entry, fault) ==
    /\ ntotal(index) < MaxEntries
    /\ LET r == add_to_index(CurrentEngine, entry, dimension, fault)
       IN /\ SetEngine(r.e)
          /\ last' = Last("add_to_index", r.ret, "none")
    /\ Env(fault)
    /\ UNCHANGED <<kb, is_available, dimension>>

\* the engine and the return value a search leaves behind
Searched(op, r) ==
    /\ SetEngine(r.e)
    /\ last' = Last(op, r.ret, IF ~index.ok /\ r.e.index.ok THEN "auto_init" ELSE "none")

Search(query, k, threshold, db, fault, zeroK) ==
    /\ Searched("search",
                search(CurrentEngine, kb, is_available, dimension, query, k,
                       threshold, db, fault, zeroK))
    /\ Env(fault)
    /\ UNCHANGED <<kb, is_available, dimension>>

SearchWithDetails(query, k, threshold, db, fault, zeroK) ==
    /\ Searched("search_with_details",
                search_with_details(CurrentEngine, kb, is_available, dimension,
                                    query, k, threshold, db, fault, zeroK))
    /\ Env(fault)
    /\ UNCHANGED <<kb, is_available, dimension>>

SearchQAPairs(query, k, threshold, category, fault, zeroK) ==
    /\ Searched("search_qa_pairs",
                search_qa_pairs(CurrentEngine, kb, is_available, dimension,
                                query, k, threshold, category, fault, zeroK))
    /\ Env(fault)
    /\ UNCHANGED <<kb, is_available, dimension>>

\* a new process: the singletons are constructed again, the store and the
\* two files stay; the model may or may not be loadable this time
Restart(avail) ==
    /\ restarts < MaxRestarts
    /\ restarts' = restarts + 1
    /\ UNCHANGED faults
    /\ is_available' = avail
    /\ dimension' = EmbeddingDimension(avail)
    /\ index' = NoIndex
    /\ id_mapping' = {}
    /\ last' = Last("restart", "none", "none")
    /\ UNCHANGED <<kb, index_file, mapping_file, threads>>

\* what index.search does when asked for 0 neighbours, by FAISS version
ZeroK == {"assert", "empty"}

Pairs == [question : Questions, answer : Answers, category : Categories,
          source : {DefaultSource}]

Batches == {<<>>} \cup {<<p>> : p \in Pairs} \cup {<<p, p2>> : p \in Pairs, p2 \in Pairs}

Init ==
    /\ kb = <<>>
    /\ is_available \in BOOLEAN
    /\ dimension = EmbeddingDimension(is_available)
    /\ index = NoIndex
    /\ id_mapping = {}
    /\ index_file = NoFile
    /\ mapping_file = NoFile
    /\ last = Last("init", "none", "none")
    /\ faults = 0
    /\ restarts = 0
    /\ threads = NoThreads

Next ==
    \/ \E q \in Questions, a \in Answers, c \in Categories, f \in CreateFaults :
            create_qa_pair(q, a, c, f)
    \/ \E i \in 1..MaxEntries, q \in Questions, a \in Answers, c \in Categories, f \in StoreFaults :
            update_qa_pair(i, q, a, c, f)
    \/ \E i \in 1..MaxEntries, f \in RebuildFaults : delete_qa_pair(i, f)
    \/ \E b \in Batches, f \in StoreFaults \cup {"legacy"} : batch_create_qa_pairs(b, f)
    \/ \E f \in StoreFaults : rebuild_embeddings_and_index(f)
    \/ \E f \in RebuildFaults : RebuildIndex(f)
    \/ \E f \in InitFaults : InitializeIndex(f)
    \/ \E qy \in Queries, db \in BOOLEAN, f \in SearchFaults, z \in ZeroK :
            Search(qy, DefaultK, DefaultThreshold, db, f, z)
    \/ \E qy \in Queries, db \in BOOLEAN, f \in DetailFaults, z \in ZeroK :
            SearchWithDetails(qy, DefaultK, DefaultThreshold, db, f, z)
    \/ \E qy \in Queries, f \in DetailFaults, z \in ZeroK :
            SearchQAPairs(qy, DefaultK, DefaultThreshold, 0, f, z)
    \/ \E av \in BOOLEAN : Restart(av)

Spec == Init /\ [][Next]_vars

\* add_to_index on its own: every entry it can be given, on an index that
\* is missing, empty or filled by earlier calls
InitAdd ==
    /\ kb = <<>>
    /\ is_available \in BOOLEAN
    /\ dimension = EmbeddingDimension(is_available)
    /\ index \in {NoIndex, IndexFlatIP(dimension)}
    /\ id_mapping = {}
    /\ index_file = NoFile
    /\ mapping_file = NoFile
    /\ last = Last("init", "none", "none")
    /\ faults = 0
    /\ restarts = 0
    /\ threads = NoThreads

NextAdd == \E en \in AddCandidates, f \in AddFaults : AddToIndex(en, f)

SpecAdd == InitAdd /\ [][NextAdd]_vars

\* the loaders of the corpus on a store that the API fills and empties
NextCorpus ==
    \/ \E f \in LoadFaults, at \in 1..CorpusSize : LoadDentalCorpus(f, at)
    \/ \E f \in StoreFaults : LoadCorpus(f)
    \/ \E q \in Questions, a \in Answers, c \in Categories :
            create_qa_pair(q, a, c, "none")
    \/ \E i \in 1..(MaxEntries + CorpusSize) : delete_qa_pair(i, "none")
    \/ \E av \in BOOLEAN : Restart(av)

SpecCorpus == Init /\ [][NextCorpus]_vars

\* calls of rebuild_index and search from several threads; the store is
\* written between them, by handlers that run alone
NextRace ==
    \/ \E t \in Rebuilders : RebuildClearIndex(t)
    \/ \E t \in Rebuilders : RebuildClearMapping(t)
    \/ \E t \in Rebuilders : RebuildQuery(t)
    \/ \E t \in Rebuilders : RebuildLoop(t)
    \/ \E t \in Rebuilders : RebuildAdd(t)
    \/ \E t \in Rebuilders : RebuildSave(t)
    \/ \E qy \in Queries, f \in {"none", "embed"} : SearchBegin(qy, f)
    \/ \E qy \in Queries, z \in ZeroK : SearchIndex(qy, DefaultK, z)
    \/ SearchProcess(DefaultThreshold)
    \/ \E q \in Questions, a \in Answers, c \in Categories :
            NoThreadRunning /\ create_qa_pair(q, a, c, "none")
    \/ \E i \in 1..MaxEntries : NoThreadRunning /\ delete_qa_pair(i, "none")

SpecRace == Init /\ [][NextRace]_vars

ShortTexts == {t \in Texts : Len(t) <= MaxShortLen}

\* the batches: none, one text, or a text and a short one in either order
TextLists ==
    {<<>>} \cup {<<t>> : t \in Texts}
           \cup {<<t, u>> : t \in Texts, u \in ShortTexts}
           \cup {<<u, t>> : t \in Texts, u \in ShortTexts}

\* the embeddings service alone, called with every text and list of texts
NextEmbed ==
    \/ \E t \in Texts, f \in {"none", "embed"} : GenerateEmbedding(t, f)
    \/ \E ts \in TextLists, f \in {"none", "embed"} : GenerateEmbeddingsBatch(ts, f)
    \/ \E installed \in BOOLEAN, loads \in BOOLEAN : NewService(installed, loads)

SpecEmbed == Init /\ [][NextEmbed]_vars

\* EmbeddingsService(model_name): __init__ keeps the name it is given and
\* sets embedding_dimension to 384 whatever the name.  OtherModel is
\* another sentence-transformers model with 384 dimensions.
OtherModel == "all-MiniLM-L12-v2"

\* an entry stored by a service built with model_name
StoredBy(model_name, q, a, active) ==
    [NewEntry(TRUE, q, a, 0, DefaultSource) EXCEPT
        !.embedding_model = model_name, !.is_active = active]

StoredEntries ==
    {StoredBy(m, q, a, act) :
        m \in {PrimaryModel, OtherModel}, q \in Questions, a \in Answers,
        act \in BOOLEAN}

\* a process with the default model on a store that earlier processes,
\* built with the default model or with OtherModel, have written
InitModels ==
    /\ kb \in {<<>>} \cup {<<en>> : en \in StoredEntries}
                     \cup {<<en, e2>> : en \in StoredEntries, e2 \in StoredEntries}
    /\ is_available \in BOOLEAN
    /\ dimension = EmbeddingDimension(is_available)
    /\ index = NoIndex
    /\ id_mapping = {}
    /\ index_file = NoFile
    /\ mapping_file = NoFile
    /\ last = Last("init", "none", "none")
    /\ faults = 0
    /\ restarts = 0
    /\ threads = NoThreads

NextModels ==
    \/ \E f \in RebuildFaults : RebuildIndex(f)
    \/ \E f \in InitFaults : InitializeIndex(f)
    \/ \E i \in 1..MaxEntries : delete_qa_pair(i, "none")
    \/ \E av \in BOOLEAN : Restart(av)

SpecModels == InitModels /\ [][NextModels]_vars

\* the rows a store can hold: written by a service in primary or in
\* fallback mode, active or not, the embedding_vector column as written,
\* NULL, or a text that is not JSON
Rows ==
    {[NewEntry(w, q, a, 0, DefaultSource) EXCEPT
            !.is_active = act,
            !.embedding_vector = IF col = "written" THEN @
                                 ELSE IF col = "null" THEN <<>> ELSE <<NotJson>>] :
        w \in BOOLEAN, q \in Questions, a \in Answers, act \in BOOLEAN,
        col \in {"written", "null", "not_json"}}

\* a process on a store of such rows
InitRows ==
    /\ kb \in {<<>>} \cup {<<en>> : en \in Rows}
                     \cup {<<en, e2>> : en \in Rows, e2 \in Rows}
    /\ is_available \in BOOLEAN
    /\ dimension = EmbeddingDimension(is_available)
    /\ index = NoIndex
    /\ id_mapping = {}
    /\ index_file = NoFile
    /\ mapping_file = NoFile
    /\ last = Last("init", "none", "none")
    /\ faults = 0
    /\ restarts = 0
    /\ threads = NoThreads

SpecRows == InitRows /\ [][NextModels]_vars

\* ------------------------------------------------------------------ claims
\* the ids the store holds as active
StoreActive == {i \in 1..Len(kb) : kb[i].is_active}

\* the active ids whose stored embedding is present and has the engine's
\* dimension
StoreIndexable ==
    {i \in StoreActive :
        /\ kb[i].embedding_vector # <<>>
        /\ kb[i].embedding_vector[1].dim = dimension}

\* a call whose rebuild_index ran to completion
RebuildCompleted ==
    /\ last.op \in {"rebuild_index", "update_qa_pair", "delete_qa_pair",
                    "batch_create_qa_pairs", "rebuild_embeddings"}
    /\ last.index_step = "True"

\* C1 as stated: after a completed rebuild_index the mapped ids are exactly
\* the ids of the active entries.
C1_MappedIdsAreActiveIds ==
    RebuildCompleted => {p[2] : p \in id_mapping} = StoreActive

\* C1 amended: after a completed rebuild_index the mapped ids are exactly the
\* ids of the active entries whose stored embedding has the engine's
\* dimension, each mapped from one position, and no other id is mapped.
C1_MappedIdsAreIndexableIds ==
    RebuildCompleted =>
        /\ {p[2] : p \in id_mapping} = StoreIndexable
        /\ Cardinality(id_mapping) = Cardinality(StoreIndexable)
        /\ Len(index.vecs) = Cardinality(StoreIndexable)

\* C1 witness: a completed rebuild over a store with a deleted entry, an
\* indexed entry and an active entry of the other embedding mode
C1_Witness ==
    /\ RebuildCompleted
    /\ last.op = "rebuild_index"
    /\ StoreActive # {1, 2}
    /\ StoreIndexable # {}
    /\ Len(kb) = 2

\* C2: whenever the index is initialized, it holds as many vectors as the
\* position->id mapping has entries.
C2_IndexSizeEqualsMappingSize ==
    index.ok => Len(index.vecs) = Cardinality(id_mapping)

\* the length of the embedding stored with an entry (0: none stored)
StoredLength(entry) ==
    IF entry.embedding_vector = <<>> THEN 0 ELSE entry.embedding_vector[1].dim

\* C3: add_to_index raises when the index is not initialized, when the entry
\* has no stored embedding or when the embedding length differs from the
\* index dimension; a call that raises leaves the index and the mapping as
\* they were; every vector in the index has the length of the index dimension.
C3_RejectedAddLeavesIndex ==
    /\ [](index.ok => \A i \in 1..Len(index.vecs) : index.vecs[i].dim = index.d)
    /\ [][\A en \in AddCandidates, f \in AddFaults :
            AddToIndex(en, f) =>
                /\ (~index.ok \/ StoredLength(en) = 0 \/ StoredLength(en) # dimension)
                       => last'.ret = "raise"
                /\ last'.ret = "raise" => index' = index /\ id_mapping' = id_mapping
                /\ last'.ret = "True" =>
                       /\ StoredLength(en) = index.d
                       /\ Len(index'.vecs) = Len(index.vecs) + 1]_vars

\* C3 witness: an index that holds a vector, after a call that was refused
C3_Witness ==
    /\ last.op = "add_to_index"
    /\ last.ret = "raise"
    /\ index.ok
    /\ Len(index.vecs) = 1
    /\ faults = 0

\* every list of results a search can return in the current state: search,
\* search_with_details and search_qa_pairs, for every query, k, threshold
\* and category, with and without a session
SearchResultLists ==
    {search(CurrentEngine, kb, is_available, dimension, qy, k, t, db, "none", z).results :
        qy \in Queries, k \in Ks, t \in Thresholds, db \in BOOLEAN, z \in ZeroK}
    \cup
    {search_with_details(CurrentEngine, kb, is_available, dimension, qy, k, t, db, "none", z).results :
        qy \in Queries, k \in Ks, t \in Thresholds, db \in BOOLEAN, z \in ZeroK}
    \cup
    {search_qa_pairs(CurrentEngine, kb, is_available, dimension, qy, k, t, c, "none", z).results :
        qy \in Queries, k \in Ks, t \in Thresholds, c \in Categories, z \in ZeroK}

\* C4: no search returns a result whose kb_id is an entry that is inactive
\* in the store (so none returns an entry delete_qa_pair has deleted).
C4_NoResultIsInactive ==
    \A rs \in SearchResultLists :
        \A i \in 1..Len(rs) :
            rs[i].kb_id \in 1..Len(kb) /\ kb[rs[i].kb_id].is_active

\* C5: every result of search has a score of at least the threshold, there
\* are at most min(k, index size) results, and a threshold above the highest
\* normalised score gives no result.
C5_ThresholdAndCount ==
    \A qy \in Queries, k \in Ks, t \in Thresholds, db \in BOOLEAN, z \in ZeroK :
        LET r == search(CurrentEngine, kb, is_available, dimension, qy, k, t, db, "none", z)
        IN /\ \A i \in 1..Len(r.results) : r.results[i].similarity_score >= t
           /\ Len(r.results) <= k
           /\ Len(r.results) <= Len(r.e.index.vecs)
           /\ t > ScoreScale => r.results = <<>>

\* C5 witness: after a search, a state in which one threshold lets two
\* results through, a higher one only one of them, and k = 1 cuts the list
C5_Witness ==
    /\ last.op = "search"
    /\ last.ret = "ok"
    /\ \E qy \in Queries, t \in Thresholds :
          LET r(k, th) == search(CurrentEngine, kb, is_available, dimension,
                                 qy, k, th, TRUE, "none", "empty").results
          IN /\ Len(r(2, t)) = 2
             /\ Len(r(2, ScoreScale)) = 1
             /\ Len(r(1, t)) = 1
             /\ r(2, ScoreScale + 1) = <<>>

\* C6: the stored embedding of every active entry is the embedding, by the
\* model the entry is tagged with, of the entry's current question and answer.
C6_EmbeddingMatchesText ==
    \A i \in 1..Len(kb) :
        kb[i].is_active =>
            kb[i].embedding_vector =
                <<generate_embedding(kb[i].embedding_model = PrimaryModel,
                                     CombinedText(kb[i].question, kb[i].answer))>>

\* C6 witness: after an update, two active entries embedded by different
\* models and with different texts
C6_Witness ==
    /\ last.op = "update_qa_pair"
    /\ last.ret = "True"
    /\ Len(kb) = 2
    /\ kb[1].is_active /\ kb[2].is_active
    /\ kb[1].embedding_model # kb[2].embedding_model
    /\ kb[1].question # kb[2].question

\* C7: an entry that is inactive stays inactive, and no entry is removed.
C7_InactiveIsTerminal ==
    [][/\ Len(kb') >= Len(kb)
       /\ \A i \in 1..Len(kb) : ~kb[i].is_active => ~kb'[i].is_active]_vars

\* C7 witness: an update or a re-embedding has run on a store with a deleted
\* entry
C7_Witness ==
    /\ last.op \in {"update_qa_pair", "rebuild_embeddings"}
    /\ last.ret = "True"
    /\ \E i \in 1..Len(kb) : ~kb[i].is_active

NotInitialized == {"not_initialized_no_db", "not_initialized_init_failed", "init_raised"}

\* C9: search on an index that is not initialized raises for the missing
\* index exactly when it was given no session or initialize_index fails;
\* otherwise the index is the one initialize_index builds from the session
\* and the query is answered.
C9_SearchAutoInitializes ==
    \A qy \in Queries, k \in Ks, t \in Thresholds, db \in BOOLEAN, f \in SearchFaults,
       z \in ZeroK :
        LET r == search(CurrentEngine, kb, is_available, dimension, qy, k, t, db, f, z)
            init == initialize_index(CurrentEngine, kb, dimension, f)
        IN /\ r.ret \in NotInitialized <=> (~index.ok /\ (~db \/ init.ret # "True"))
           /\ (~index.ok /\ db /\ init.ret = "True") =>
                 /\ r.e = init.e
                 /\ r.e.index.ok
                 /\ (qy # 0 /\ f = "none" /\ (Len(r.e.index.vecs) > 0 \/ z = "empty"))
                       => r.ret = "ok"

\* C9 witness: a search that found no index has initialized one that holds
\* a vector, and has answered
C9_Witness ==
    /\ last.op = "search"
    /\ last.index_step = "auto_init"
    /\ last.ret = "ok"
    /\ Len(index.vecs) > 0

\* C10: an index in service has the generator's dimension and holds vectors
\* of that length only, also when initialize_index has returned True on
\* persisted files of another dimension.
C10_ServedIndexHasCurrentDimension ==
    index.ok =>
        /\ index.d = EmbeddingDimension(is_available)
        /\ \A i \in 1..Len(index.vecs) : index.vecs[i].dim = index.d

\* C10 witness: initialize_index has returned True where the persisted
\* index had vectors of the other dimension
C10_Witness ==
    /\ last.op = "initialize_index"
    /\ last.ret = "True"
    /\ last.index_step = "mismatch"
    /\ Len(index.vecs) > 0

\* C11: when add_to_index has returned True, the index file holds the
\* in-memory index and the mapping file the in-memory mapping, the entry
\* just added included.
C11_AddIsPersisted ==
    (last.op = "add_to_index" /\ last.ret = "True") =>
        /\ index_file = File(index)
        /\ mapping_file = File(id_mapping)

\* C12: search_with_details and search_qa_pairs return a list whatever the
\* index, the query and the failure inside them, and the list is empty when
\* the search they wrap raised or the hydration query failed.
C12_DetailedSearchNeverRaises ==
    \A qy \in Queries, k \in Ks, db \in BOOLEAN, f \in DetailFaults, z \in ZeroK :
        LET s == search(CurrentEngine, kb, is_available, dimension, qy, k,
                        DefaultThreshold, db, f, z)
            d == search_with_details(CurrentEngine, kb, is_available, dimension,
                                     qy, k, DefaultThreshold, db, f, z)
            failed == s.ret # "ok" \/ (f = "hydrate" /\ db)
        IN /\ d.ret = "ok"
           /\ failed => d.results = <<>>
           /\ db => \A c \in Categories :
                      LET q == search_qa_pairs(CurrentEngine, kb, is_available,
                                               dimension, qy, k, DefaultThreshold, c, f, z)
                      IN /\ q.ret = "ok"
                         /\ failed => q.results = <<>>

\* C12 witness: search_with_details has returned while the index it was to
\* search is still missing, on a store that has an entry
C12_Witness ==
    /\ last.op = "search_with_details"
    /\ last.ret = "ok"
    /\ ~index.ok
    /\ Len(kb) > 0

\* every mapped position holds the normalized stored embedding of the entry
\* it is mapped to
MappedVectorsAreStored ==
    index.ok =>
        \A p \in id_mapping :
            /\ p[1] < Len(index.vecs)
            /\ p[2] \in 1..Len(kb)
            /\ index.vecs[p[1] + 1] = normalize_L2(get_embedding_from_db(kb[p[2]]))

\* every hydrated result carries the question and answer the store has for
\* its kb_id
HydratedFromStore ==
    \A qy \in Queries, k \in Ks, z \in ZeroK :
        LET rs == search_with_details(CurrentEngine, kb, is_available, dimension, qy,
                                      k, DefaultThreshold, TRUE, "none", z).results
        IN \A i \in 1..Len(rs) :
              /\ rs[i].question = kb[rs[i].kb_id].question
              /\ rs[i].answer = kb[rs[i].kb_id].answer

\* C13: once update_qa_pair has returned True, a search that returns the id
\* carries the store's new question and answer, and the vector indexed for
\* the id is the normalized embedding stored with the new text; also for
\* the searches after the index has been initialized again.
C13_UpdatedEntryIsServedFresh ==
    [][(last.op = "update_qa_pair" /\ last.ret = "True") =>
          /\ MappedVectorsAreStored
          /\ HydratedFromStore
          /\ (last'.op = "initialize_index" /\ last'.ret = "True") =>
                MappedVectorsAreStored']_vars

\* the entries created one at a time, each creation followed by a
\* rebuild_index, no call failing
RECURSIVE OneAtATime(_, _, _, _)
OneAtATime(e, store, pairs, i) ==
    IF i > Len(pairs) THEN [kb |-> store, e |-> e]
    ELSE LET c == qa_create(e, store, is_available, dimension, pairs[i].question,
                            pairs[i].answer, pairs[i].category, pairs[i].source, "none")
         IN OneAtATime(rebuild_index(c.e, c.kb, dimension, "none").e, c.kb, pairs, i + 1)

\* the batches that fit in the store
FittingBatches == {b \in Batches : Len(kb) + Len(b) <= MaxEntries}

\* batch b leaves the store and the mapped ids that its entries, created one
\* at a time, leave
BatchAsOneAtATime(b) ==
    LET batch == qa_batch_create(CurrentEngine, kb, is_available, dimension, b, "none")
        single == OneAtATime(CurrentEngine, kb, b, 1)
    IN /\ batch.kb = single.kb
       /\ MappedIds(batch.e.id_mapping) = MappedIds(single.e.id_mapping)

CorpusCopies(store, i) ==
    {j \in 1..Len(store) : /\ store[j].question = get_dental_corpus[i].question
                           /\ store[j].source = CorpusSource}

CorpusLoaded(store) == \A i \in 1..CorpusSize : CorpusCopies(store, i) # {}

IsLoad(op) == op \in {"load_dental_corpus", "load_corpus"}

\* C15: no (question, source) pair of the corpus is stored twice; a load
\* of the corpus in which nothing failed leaves every entry of the corpus
\* in the store (load_dental_corpus); a load on a store that has every
\* entry of the corpus creates no entry and changes none; and so does a
\* load that follows a load of the same loader when nothing has failed.
C15_SecondLoadCreatesNothing ==
    /\ [](\A i \in 1..CorpusSize : Cardinality(CorpusCopies(kb, i)) <= 1)
    /\ [][/\ (last'.op = "load_dental_corpus" /\ faults' = faults) => CorpusLoaded(kb')
          /\ (IsLoad(last'.op) /\ CorpusLoaded(kb)) => kb' = kb
          /\ (IsLoad(last'.op) /\ last.op = last'.op /\ faults' = 0)
                => kb' = kb]_vars

\* C15 witness: the corpus has been loaded a second time, next to an entry
\* of the API with the question of a corpus entry
C15_Witness ==
    /\ last.op = "load_dental_corpus"
    /\ last.ret = "0"
    /\ CorpusLoaded(kb)
    /\ \E j \in 1..Len(kb) : kb[j].source = DefaultSource /\ kb[j].question = 1

\* C16: a search that has met a rebuild has used an index and a mapping
\* that are together the complete pair from before the rebuild or the
\* complete rebuilt pair.
C16_SearchSeesCompleteIndex ==
    (threads.search.pc = "returned" /\ threads.search.met_rebuild
        /\ threads.search.seen_index.ok)
    => \E view \in threads.search.allowed :
            /\ threads.search.seen_index = view[1]
            /\ threads.search.ret = "ok" => threads.search.seen_mapping = view[2]

\* C17: when rebuilds that overlapped have all returned, the index and the
\* mapping are those of one rebuild: every valid active entry once, as
\* many vectors as mapped positions.
C17_OverlappingRebuildsAreSerial ==
    (threads.overlapped /\ ~RebuildRunning /\ last.op = "rebuild_index")
    => /\ <<index, id_mapping>> = Rebuilt(kb, dimension)
       /\ ntotal(index) = Cardinality(id_mapping)

\* C18: generate_embedding returns a vector and does not raise; when the
\* primary model is not in service or has failed in the call, the vector is
\* the fallback's, of the fallback dimension.
C18_EmbeddingNeverRaises ==
    last.op = "generate_embedding"
    => /\ last.ret = "ok"
       /\ Len(last.vecs) = 1
       /\ (~is_available \/ last.encode_failed)
            => last.vecs[1] = generate_basic_embedding(clean_text(FALSE, last.texts[1]))

\* C19: a batch that returns has, at every position, the vector that
\* generate_embedding returns for the text at that position.
C19_BatchEqualsSingle ==
    (last.op = "generate_embeddings_batch" /\ last.ret = "ok")
    => /\ Len(last.vecs) = Len(last.texts)
       /\ \A i \in 1..Len(last.texts) :
            generate_embedding_text(is_available, last.texts[i], "none")
                = [ret |-> "ok", vecs |-> <<last.vecs[i]>>]

\* C19 witness: a batch of two texts, one that cleaning shortens and one
\* that it leaves alone
C19_Witness ==
    /\ last.op = "generate_embeddings_batch"
    /\ last.ret = "ok"
    /\ Len(last.texts) = 2
    /\ Len(clean_text(is_available, last.texts[1])) < Len(last.texts[1])
    /\ Len(last.texts[1]) = MaxTextLen
    /\ clean_text(is_available, last.texts[2]) = last.texts[2]
    /\ last.texts[2] # <<>>

\* C20: a delete_qa_pair step removes no record and changes at most one,
\* and that one only in its is_active flag, which becomes false; question,
\* answer, category, source and stored embedding stay as they were.
C20_DeleteOnlyDeactivates ==
    [][last'.op = "delete_qa_pair"
        => /\ Len(kb') = Len(kb)
           /\ Cardinality({i \in 1..Len(kb) : kb'[i] # kb[i]}) <= 1
           /\ \A i \in 1..Len(kb) :
                \/ kb'[i] = kb[i]
                \/ kb[i].is_active /\ kb'[i] = [kb[i] EXCEPT !.is_active = FALSE]]_vars

\* C20 witness: the first of two entries has been deleted and still has
\* its embedding; the second is active
C20_Witness ==
    /\ last.op = "delete_qa_pair"
    /\ last.ret = "True"
    /\ Len(kb) = 2
    /\ ~kb[1].is_active
    /\ kb[1].embedding_vector # <<>>
    /\ kb[2].is_active

\* the arguments the read operations are given
ListCategories == Categories \cup {get_dental_corpus[1].category}

ListSources == {"", DefaultSource, CorpusSource}

ListLimits == {1, 100}

ListOffsets == {0, 1}

\* C21: get_qa_pair returns None for an inactive entry; every entry that
\* list_qa_pairs returns, under any filter and page, is active; every
\* category of get_categories and every source of get_sources is carried
\* by an active entry.
C21_ReadsSeeActiveOnly ==
    /\ \A id \in 1..Len(kb) : ~kb[id].is_active => get_qa_pair(kb, id) = 0
    /\ \A c \in ListCategories, src \in ListSources, lim \in ListLimits, off \in ListOffsets :
          LET rows == list_qa_pairs(kb, c, src, lim, off)
          IN \A i \in 1..Len(rows) : rows[i] \in 1..Len(kb) /\ kb[rows[i]].is_active
    /\ \A c \in get_categories(kb) :
          \E i \in 1..Len(kb) : kb[i].is_active /\ kb[i].category = c
    /\ \A src \in get_sources(kb) :
          \E i \in 1..Len(kb) : kb[i].is_active /\ kb[i].source = src

\* C21 witness: the corpus entries have been deleted, an entry of the API
\* is active: the corpus source and category are carried by inactive
\* entries only, and the listing is shorter than the store
C21_Witness ==
    /\ last.op = "delete_qa_pair"
    /\ \E i \in 1..Len(kb) : ~kb[i].is_active /\ kb[i].source = CorpusSource
    /\ get_sources(kb) = {DefaultSource}
    /\ get_categories(kb) = {}
    /\ Len(list_qa_pairs(kb, 0, "", 100, 0)) \in 1..(Len(kb) - 1)
    /\ \E id \in 1..Len(kb) : get_qa_pair(kb, id) = 0

\* C22: a create_qa_pair step that returns None leaves the store, the
\* index and the mapping as they were, and a step that stores an entry
\* returns it.
C22_CreateFailureCreatesNothing ==
    [][last'.op = "create_qa_pair"
        => /\ last'.ret = "None"
                => kb' = kb /\ index' = index /\ id_mapping' = id_mapping
           /\ Len(kb') > Len(kb) => last'.ret = "entry"]_vars

\* C23: no entry id is mapped from two index positions.
C23_OnePositionPerEntry ==
    \A p \in id_mapping, o \in id_mapping : p[2] = o[2] => p[1] = o[1]

\* C24: after rebuild_index or initialize_index has returned True, every
\* mapped entry carries the model name of the running service.
C24_IndexedEntriesCarryCurrentModel ==
    (last.op \in {"rebuild_index", "initialize_index"} /\ last.ret = "True")
    => \A id \in MappedIds(id_mapping) :
            id \in 1..Len(kb) /\ kb[id].embedding_model = ModelName(is_available)

\* the active entries whose column holds a JSON list of the index
\* dimension
Indexable(store, dim) ==
    {i \in 1..Len(store) :
        /\ store[i].is_active
        /\ store[i].embedding_vector \notin {<<>>, <<NotJson>>}
        /\ store[i].embedding_vector[1].dim = dim}

\* C25: a rebuild_index in which the environment does not fail returns
\* True; after it the mapping takes the positions 0..n-1 to the n active
\* entries with a parsable embedding of the index dimension, in id order,
\* and the index has n vectors.
C25_RebuildSkipsBadEmbeddings ==
    /\ [][(last'.op = "rebuild_index" /\ faults' = faults) => last'.ret = "True"]_vars
    /\ []((last.op = "rebuild_index" /\ last.ret = "True")
            => /\ id_mapping =
                    {<<Cardinality({j \in Indexable(kb, dimension) : j < i}), i>> :
                        i \in Indexable(kb, dimension)}
               /\ ntotal(index) = Cardinality(Indexable(kb, dimension)))

\* C25 witness: the first entry is active with a column that is not
\* JSON, the second is indexed at position 0
C25_Witness ==
    /\ last.op = "rebuild_index"
    /\ last.ret = "True"
    /\ Len(kb) = 2
    /\ kb[1].is_active
    /\ kb[1].embedding_vector = <<NotJson>>
    /\ id_mapping = {<<0, 2>>}
    /\ ntotal(index) = 1

\* what search_qa_pairs returns in the current state
QAPairsFound(qy, k, t, c, z) ==
    search_qa_pairs(CurrentEngine, kb, is_available, dimension, qy, k, t, c,
                    "none", z).results

\* C26: for every query, k, threshold and category, search_qa_pairs with
\* the category returns the results it returns without one that carry the
\* category, in their order and with their scores and ranks.
C26_CategoryFilterIsPostHoc ==
    \A qy \in Queries, k \in Ks, t \in Thresholds, z \in ZeroK :
        \A c \in ListCategories \ {0} :
            LET Carries(r) == r.category = c
            IN QAPairsFound(qy, k, t, c, z)
                    = SelectSeq(QAPairsFound(qy, k, t, 0, z), Carries)

\* C26 witness: the two best results have different categories; with the
\* corpus category only the second is returned, with rank 2
C26_Witness ==
    /\ index.ok
    /\ Len(QAPairsFound(1, MaxK, DefaultThreshold, 0, "empty")) = 2
    /\ Len(QAPairsFound(1, MaxK, DefaultThreshold, get_dental_corpus[1].category, "empty")) = 1
    /\ QAPairsFound(1, MaxK, DefaultThreshold, get_dental_corpus[1].category, "empty")[1].rank = 2

\* what search_with_details returns in the current state; without a
\* session (db false) it is the list search returns
DetailsFound(qy, k, t, db, z) ==
    search_with_details(CurrentEngine, kb, is_available, dimension, qy, k, t,
                        db, "none", z).results

\* C27: for every query, k and threshold, with and without a session, the
\* returned list is in non-increasing score order and its i-th result has
\* rank i.
C27_ResultsRankedInOrder ==
    \A qy \in Queries, k \in Ks, t \in Thresholds, db \in BOOLEAN, z \in ZeroK :
        LET rs == DetailsFound(qy, k, t, db, z)
        IN \A i \in 1..Len(rs) :
              /\ rs[i].rank = i
              /\ i > 1 => rs[i - 1].similarity_score >= rs[i].similarity_score

\* the last call was an add_to_index or a rebuild_index that completed,
\* alone or as the index step of a store operation
IndexWritten ==
    \/ last.op = "rebuild_index" /\ last.ret = "True"
    \/ last.op = "add_to_index" /\ last.ret = "True"
    \/ last.op = "create_qa_pair" /\ last.index_step = "ok"
    \/ /\ last.op \in {"update_qa_pair", "delete_qa_pair", "batch_create_qa_pairs",
                       "rebuild_embeddings_and_index"}
       /\ last.index_step = "True"

\* initialize_index in a new process on the files and the store as they are
Restored ==
    initialize_index(Engine(NoIndex, {}, index_file, mapping_file), kb,
                     dimension, "none")

\* C28: when the process restarts in the same mode right after a completed
\* add_to_index or rebuild_index, initialize_index returns True with as
\* many vectors as the index had in memory and with the same mapping.
C28_RestartRestoresIndex ==
    [][(last'.op = "restart" /\ is_available' = is_available /\ IndexWritten)
        => /\ Restored.ret = "True"
           /\ ntotal(Restored.e.index) = ntotal(index)
           /\ Restored.e.id_mapping = id_mapping]_vars

C30_InactiveEntryRefusesUpdate ==
    [][\A i \in 1..Len(kb), q \in Questions, a \in Answers,
          c \in Categories, f \in StoreFaults :
            (update_qa_pair(i, q, a, c, f) /\ ~kb[i].is_active)
                => /\ last'.ret = "False"
                   /\ kb'[i].question = kb[i].question
                   /\ kb'[i].answer = kb[i].answer
                   /\ kb'[i].category = kb[i].category
                   /\ kb'[i].embedding_vector = kb[i].embedding_vector]_vars

====
